---- MODULE Spec2Model ----
(***************************************************************************)
(* A state-machine model of pyqode.core's CodeEdit widget                  *)
(* (src/pyqode/core/api/code_edit.py): its extension registries (modes,    *)
(* panels), its clone/link protocol, its zoom level and its close()        *)
(* teardown.  Editors are numbered 1..Len(klass); every per-editor field   *)
(* is a sequence indexed by the editor's number.  Documents (the toolkit's *)
(* QTextDocument) are numbered like the editor that created them; doc[e]   *)
(* is the document editor e currently displays.                            *)
(***************************************************************************)
EXTENDS Integers, Sequences, FiniteSets, TLC

\* ------------------------------------------------------------------ bounds
MaxEditors == 3        \* editors ever constructed (original + clones)
MaxLines == 3          \* lines a document may grow to
MaxZoom == 1           \* largest zoom level zoom_in is driven to
MaxAssign == 2         \* property assignments callers make in one run
MaxViews == 2          \* editors in the runs that edit a shared document

\* ------------------------------------------------------- program constants
DefaultFontSize == 10
DefaultTabLength == 4

\* ------------------------------------------------------------ value spaces
Classes == {"CodeEdit", "SubEdit"}
DEFAULT_FONT == "Source Code Pro"
NoInst == "none"
KeyError == "KeyError"
None == "None"

ModeTypes == {"CaseConverterMode", "AutoIndentMode"}
ModeInsts == {"cc1", "cc2", "ai1"}
PanelTypes == {"LineNumberPanel", "MarkerPanel"}
PanelInsts == {"ln1", "ln2", "mk1"}
Positions == {"TOP", "LEFT", "RIGHT", "BOTTOM"}
\* the zones the model's callers install panels in
UsedPositions == {"LEFT", "BOTTOM"}

\* type(x): the class of an extension instance
TypeOf(x) ==
    CASE x \in {"cc1", "cc2"} -> "CaseConverterMode"
      [] x = "ai1" -> "AutoIndentMode"
      [] x \in {"ln1", "ln2"} -> "LineNumberPanel"
      [] x = "mk1" -> "MarkerPanel"

VARIABLES
    klass,          \* klass[e]: the class editor e is an instance of
    clones,         \* clones[e]: self.clones, the list of e's clones
    doc,            \* doc[e]: the document e displays (self.document())
    text,           \* text[d]: the lines of document d
    modified,       \* modified[d]: QTextDocument.isModified() of document d
    cursor,         \* cursor[e]: <<line, column>> of e's text cursor
    props,          \* props[e]: the thirteen synchronised properties of e
    zoom_level,     \* zoom_level[e]: self._zoom_level
    file,           \* file[e]: the file manager's path, encoding, mimetype
    managers,       \* managers[e]: the registries self._modes, self._panels
    panelPos,       \* panelPos[p]: panel p's position attribute
    panelEnabled,   \* panelEnabled[p]: panel p's enabled flag
    decorations,    \* decorations[e]: the text decorations of e
    backend,        \* backend[e]: TRUE while e's backend process runs
    shown,          \* shown[e]: FALSE once the widget has been closed
    cache,          \* cache[path]: the cursor position cached for path
    calls,          \* calls[e]: the teardown calls close() made, in order
    last,           \* the last operation: its name, editor, argument, result
    trail,          \* trail[e]: per registry, what was called since clear()
    assigned,       \* assigned[e]: a property was assigned on e directly
    pushed,         \* pushed[e]: e's original wrote e._word_separators
    nassign,        \* how many property assignments callers have made
    linked,         \* linked[e]: what link() copied when e was linked
    trace,          \* the calls and emissions of the last traced handler
    event,          \* the last input event: a key and its accepted flag, or
                    \* a paint and the geometry it ran under
    actions,        \* actions[e]: self._actions, the context-menu list
    created,        \* how many separators add_separator() has created
    original_text,  \* original_text[e]: self._original_text
    visible_blocks, \* visible_blocks[e]: self._visible_blocks
    tooltip,        \* tooltip[e]: recorded block, visibility, pending job
    case_converter  \* case_converter[e]: e's CaseConverterMode instance

regVars == <<managers, panelPos, panelEnabled, trail>>
docVars == <<text, modified, cursor>>
edVars == <<klass, clones, doc, props, zoom_level, file, assigned, pushed,
           nassign, linked>>
closeVars == <<decorations, backend, shown, cache, calls>>
uiVars == <<trace, event, actions, created, original_text, visible_blocks,
           tooltip, case_converter>>
vars == <<regVars, docVars, edVars, closeVars, last, uiVars>>

Editors == 1..Len(klass)

\* --------------------------------------------------------------- registry
\* ModesManager / PanelsManager: a collection keyed by the extension's type.
ExtTypes == ModeTypes \cup PanelTypes
EmptyReg == [T \in ExtTypes |-> NoInst]

RegHas(reg, T) == reg[T] # NoInst

RegLen(reg) == Cardinality({T \in DOMAIN reg : reg[T] # NoInst})

RegAppend(reg, x) == [reg EXCEPT ![TypeOf(x)] = x]

RegGet(reg, T) == IF RegHas(reg, T) THEN reg[T] ELSE KeyError

RegRemove(reg, T) == IF RegHas(reg, T) THEN [reg EXCEPT ![T] = NoInst] ELSE reg

RegClear(reg) == [T \in DOMAIN reg |-> NoInst]

\* CodeEdit.modes / CodeEdit.panels: the manager object each property returns,
\* named by the attribute that holds it
modes_wrong(e) == "_panels"

modes(e) == "_modes"

panels_wrong(e) == "_modes"

panels(e) == "_panels"

\* ------------------------------------------------------------ construction
Props == {"use_spaces_instead_of_tabs", "tab_length", "min_indent_column",
          "save_on_focus_out", "show_whitespaces", "font_name", "font_size",
          "background", "foreground", "whitespaces_foreground",
          "selection_background", "selection_foreground", "word_separators"}

\* the property values CodeEdit.__init__, _init_settings and _init_style set
InitProps ==
    [p \in Props |->
        CASE p = "use_spaces_instead_of_tabs" -> TRUE
          [] p = "tab_length" -> DefaultTabLength
          [] p = "min_indent_column" -> 0
          [] p = "save_on_focus_out" -> FALSE
          [] p = "show_whitespaces" -> FALSE
          [] p = "font_name" -> DEFAULT_FONT
          [] p = "font_size" -> DefaultFontSize
          [] p = "background" -> "white"
          [] p = "foreground" -> "black"
          [] p = "whitespaces_foreground" -> "light gray"
          [] p = "selection_background" -> "highlight"
          [] p = "selection_foreground" -> "highlightedText"
          [] p = "word_separators" -> "default separators"]

EmptyText == << <<>> >>
NoFile == [path |-> "", encoding |-> "", mimetype |-> ""]
NoLink == [orig |-> 0, file |-> NoFile, zoom |-> 0, props |-> InitProps]
NoCall == [op |-> "init", ed |-> 0, arg |-> None, ret |-> None]
NoTrail == [st |-> "other", inst |-> None, pos |-> None]
NoEvent == [key |-> "none", accepted |-> FALSE]
NoJob == "none"
\* block: _prev_tooltip_block_nbr; visible: QToolTip.isVisible(); job: the
\* decoration whose tooltip the delayed job will show; text: the length of
\* the text handed to the job; shown: the length of the text on display
NoTooltip ==
    [block |-> -1, visible |-> FALSE, job |-> NoJob, text |-> 0, shown |-> 0]

\* a context-menu entry: a named action or a separator
Action(name) == [sep |-> FALSE, name |-> name, id |-> 0]

Separator(n) == [sep |-> TRUE, name |-> "", id |-> n]

NDefaultSeparators == 4

\* _init_actions(): the default context menu
DefaultActions ==
    <<Action("Undo"), Action("Redo"), Separator(1), Action("Copy"),
      Action("Cut"), Action("Paste"), Action("Delete"),
      Action("Duplicate line"), Action("Select all"), Separator(2),
      Action("Indent"), Action("Un-indent"), Separator(3),
      Action("Go to line"), Separator(4)>>

\* CaseConverterMode.__init__; ncreate counts the runs of _create_actions,
\* cycles the times the mode was enabled (up to 2), and first holds actions()
\* as it was before the mode was first enabled
NewCaseConverter ==
    [enabled |-> FALSE, actions_created |-> FALSE, separator |-> None,
     ncreate |-> 0, cycles |-> 0, first |-> <<>>]

InitManagers == [_modes |-> EmptyReg, _panels |-> EmptyReg]
InitTrail == [_modes |-> NoTrail, _panels |-> NoTrail]

\* the state after constructing one editor of class k
InitOf(k) ==
    /\ klass = <<k>>
    /\ clones = << <<>> >>
    /\ doc = <<1>>
    /\ text = <<EmptyText>>
    /\ modified = <<FALSE>>
    /\ cursor = << <<0, 0>> >>
    /\ props = <<InitProps>>
    /\ zoom_level = <<0>>
    /\ file = <<NoFile>>
    /\ managers = <<InitManagers>>
    /\ panelPos = [p \in PanelInsts |-> None]
    /\ panelEnabled = [p \in PanelInsts |-> FALSE]
    /\ decorations = << {} >>
    /\ backend = <<FALSE>>
    /\ shown = <<TRUE>>
    /\ cache = [f \in {} |-> <<0, 0>>]
    /\ calls = << <<>> >>
    /\ last = NoCall
    /\ trail = <<InitTrail>>
    /\ assigned = <<FALSE>>
    /\ pushed = <<FALSE>>
    /\ nassign = 0
    /\ linked = <<NoLink>>
    /\ trace = <<>>
    /\ event = NoEvent
    /\ actions = <<DefaultActions>>
    /\ created = NDefaultSeparators
    /\ original_text = <<EmptyText>>
    /\ visible_blocks = << <<>> >>
    /\ tooltip = <<NoTooltip>>
    /\ case_converter = <<NewCaseConverter>>

Init == InitOf("CodeEdit")

InitAnyClass == \E k \in Classes : InitOf(k)

\* ------------------------------------------------- modes / panels registry
\* what the caller's view of a registry has seen since its last clear()
TrailAppend(t, x, pos) ==
    [st |-> IF t.st = "cleared" THEN "first" ELSE "appended",
     inst |-> x, pos |-> pos]
TrailClear == [st |-> "cleared", inst |-> None, pos |-> None]

ModesAppend(e, m) ==
    /\ managers' = [managers EXCEPT ![e][modes(e)] = RegAppend(@, m)]
    /\ trail' = [trail EXCEPT ![e]._modes = TrailAppend(@, m, None)]
    /\ last' = [op |-> "modes.append", ed |-> e, arg |-> None, ret |-> None]
    /\ UNCHANGED <<panelPos, panelEnabled, docVars, edVars, closeVars, uiVars>>

\* editor.modes.get(T) and len(editor.modes): reads, no state changes
ModesGet(e, T) == RegGet(managers[e][modes(e)], T)

ModesLen(e) == RegLen(managers[e][modes(e)])

ModesRemove(e, T) ==
    /\ managers' = [managers EXCEPT ![e][modes(e)] = RegRemove(@, T)]
    /\ trail' = [trail EXCEPT ![e]._modes = NoTrail]
    /\ last' = [op |-> "modes.remove", ed |-> e, arg |-> T,
                ret |-> RegGet(managers[e][modes(e)], T)]
    /\ UNCHANGED <<panelPos, panelEnabled, docVars, edVars, closeVars, uiVars>>

ModesClear(e) ==
    /\ managers' = [managers EXCEPT ![e][modes(e)] = RegClear(@)]
    /\ trail' = [trail EXCEPT ![e]._modes = TrailClear]
    /\ last' = [op |-> "modes.clear", ed |-> e, arg |-> None, ret |-> None]
    /\ UNCHANGED <<panelPos, panelEnabled, docVars, edVars, closeVars, uiVars>>

PanelsAppend(e, p, pos) ==
    /\ managers' = [managers EXCEPT ![e][panels(e)] = RegAppend(@, p)]
    /\ panelPos' = [panelPos EXCEPT ![p] = pos]
    /\ panelEnabled' = [panelEnabled EXCEPT ![p] = TRUE]
    /\ trail' = [trail EXCEPT ![e]._panels = TrailAppend(@, p, pos)]
    /\ last' = [op |-> "panels.append", ed |-> e, arg |-> None, ret |-> None]
    /\ UNCHANGED <<docVars, edVars, closeVars, uiVars>>

\* editor.panels.get(T) and len(editor.panels): reads, no state changes
PanelsGet(e, T) == RegGet(managers[e][panels(e)], T)

PanelsLen(e) == RegLen(managers[e][panels(e)])

PanelsRemove(e, T) ==
    /\ managers' = [managers EXCEPT ![e][panels(e)] = RegRemove(@, T)]
    /\ trail' = [trail EXCEPT ![e]._panels = NoTrail]
    /\ last' = [op |-> "panels.remove", ed |-> e, arg |-> T,
                ret |-> RegGet(managers[e][panels(e)], T)]
    /\ UNCHANGED <<panelPos, panelEnabled, docVars, edVars, closeVars, uiVars>>

PanelsClear(e) ==
    /\ managers' = [managers EXCEPT ![e][panels(e)] = RegClear(@)]
    /\ trail' = [trail EXCEPT ![e]._panels = TrailClear]
    /\ last' = [op |-> "panels.clear", ed |-> e, arg |-> None, ret |-> None]
    /\ UNCHANGED <<panelPos, panelEnabled, docVars, edVars, closeVars, uiVars>>

\* p = editor.panels.get(T); p.enabled = not p.enabled
PanelToggleEnabled(e, T) ==
    /\ RegHas(managers[e][panels(e)], T)
    /\ panelEnabled' =
           [panelEnabled EXCEPT ![managers[e][panels(e)][T]] = ~@]
    /\ last' = [op |-> "panel.enabled", ed |-> e, arg |-> T, ret |-> None]
    /\ UNCHANGED <<managers, panelPos, trail, docVars, edVars, closeVars, uiVars>>

NextReg ==
    \E e \in Editors :
        \/ \E m \in ModeInsts : ModesAppend(e, m)
        \/ \E T \in ModeTypes : ModesRemove(e, T)
        \/ ModesClear(e)
        \/ \E p \in PanelInsts, pos \in UsedPositions : PanelsAppend(e, p, pos)
        \/ \E T \in PanelTypes : PanelsRemove(e, T)
        \/ PanelsClear(e)
        \/ \E T \in PanelTypes : PanelToggleEnabled(e, T)

SpecReg == Init /\ [][NextReg]_vars

\* ------------------------------------------------------------ clone / link
Texts == { << <<>> >>,
           << <<"a", "b">> >>,
           << <<" ", "a">>, <<"b">> >> }
Paths == {"a.py", "b.txt"}

\* the values callers assign to each property
PropValues(p) ==
    CASE p \in {"use_spaces_instead_of_tabs", "save_on_focus_out",
                "show_whitespaces"} -> BOOLEAN
      [] p = "tab_length" -> {4, 8}
      [] p = "min_indent_column" -> {0, 7}
      [] p = "font_name" -> {"", "Monaco"}
      [] p = "font_size" -> {2, 10}
      [] p = "background" -> {"white", "black"}
      [] p = "foreground" -> {"black", "white"}
      [] p = "whitespaces_foreground" -> {"light gray", "gray"}
      [] p = "selection_background" -> {"highlight", "blue"}
      [] p = "selection_foreground" -> {"highlightedText", "white"}
      [] p = "word_separators" -> {"default separators", "custom separators"}

Range(seq) == {seq[i] : i \in DOMAIN seq}

\* the value a property setter stores: font_name replaces "" by the default
Setter(p, v) == IF p = "font_name" /\ v = "" THEN DEFAULT_FONT ELSE v

\* a setter that forgets its clones
PropagateNone(ps, cs, p, v) == ps

\* `for c in self.clones: c.<p> = value`: every property but word_separators
\* assigns through the clone's own setter, which reaches the clone's clones;
\* word_separators writes c._word_separators directly
RECURSIVE Propagate(_, _, _, _)
Propagate(ps, cs, p, v) ==
    IF cs = <<>> THEN ps
    ELSE LET c == Head(cs)
             v2 == IF p = "word_separators" THEN v ELSE Setter(p, v)
             ps1 == [ps EXCEPT ![c][p] = v2]
             ps2 == IF p = "word_separators" THEN ps1
                    ELSE Propagate(ps1, clones[c], p, v2)
         IN Propagate(ps2, Tail(cs), p, v)

\* self.<p> = value, on editor e
AssignProp(ps, e, p, v) ==
    Propagate([ps EXCEPT ![e][p] = Setter(p, v)], clones[e], p, Setter(p, v))

SetProperty(e, p, v) ==
    /\ nassign < MaxAssign
    /\ nassign' = nassign + 1
    /\ props' = AssignProp(props, e, p, v)
    /\ assigned' = [assigned EXCEPT ![e] = TRUE]
    /\ pushed' = [c \in DOMAIN pushed |->
                     \/ pushed[c]
                     \/ p = "word_separators" /\ c \in Range(clones[e])]
    /\ last' = last
    /\ UNCHANGED <<klass, clones, doc, zoom_level, file, linked,
                   regVars, docVars, closeVars, uiVars>>

\* TextHelper(self).cursor_position() and TextHelper(clone).goto_line(l, c)
cursor_position(e) == cursor[e]

goto_line(l, c) == <<l, c>>

\* clone(): an instance of self.__class__
clone_base(e) == "CodeEdit"

clone(e) == klass[e]

\* link(): what the clone receives from the original
link_own_document(e) == Len(klass) + 1

link_document(e) == doc[e]

link_file(e) ==
    [path |-> file[e].path, encoding |-> file[e].encoding,
     mimetype |-> file[e].mimetype]

link_props_but_one(e) ==
    [p \in Props |-> IF p = "min_indent_column" THEN InitProps[p]
                     ELSE Setter(p, props[e][p])]

link_props(e) == [p \in Props |-> Setter(p, props[e][p])]

link_zoom_level(e) == zoom_level[e]

\* the constructor of a new editor of class k followed by e.link(it); cur is
\* where the new editor's cursor ends up
ConstructAndLink(e, k, cur) ==
    /\ klass' = Append(klass, k)
    /\ doc' = Append(doc, link_document(e))
    /\ text' = Append(text, EmptyText)
    /\ modified' = Append(modified, FALSE)
    /\ cursor' = Append(cursor, cur)
    /\ props' = Append(props, link_props(e))
    /\ zoom_level' = Append(zoom_level, link_zoom_level(e))
    /\ file' = Append(file, link_file(e))
    /\ managers' = Append(managers, InitManagers)
    /\ trail' = Append(trail, InitTrail)
    /\ decorations' = Append(decorations, {})
    /\ backend' = Append(backend, FALSE)
    /\ shown' = Append(shown, TRUE)
    /\ calls' = Append(calls, <<>>)
    /\ assigned' = Append(assigned, FALSE)
    /\ pushed' = Append(pushed, FALSE)
    /\ actions' = Append(actions, DefaultActions)
    /\ original_text' = Append(original_text, EmptyText)
    /\ visible_blocks' = Append(visible_blocks, <<>>)
    /\ tooltip' = Append(tooltip, NoTooltip)
    /\ case_converter' = Append(case_converter, NewCaseConverter)
    /\ linked' = Append(linked, [orig |-> e, file |-> file[e],
                                 zoom |-> zoom_level[e], props |-> props[e]])
    /\ UNCHANGED <<panelPos, panelEnabled, cache, nassign, trace, event, created>>

split_at_start(e) == <<0, 0>>

\* split(): where the clone's cursor is sent
split_cursor(e) == goto_line(cursor_position(e)[1], cursor_position(e)[2])

split_append_twice(e) ==
    Append([clones EXCEPT ![e] = @ \o <<Len(klass) + 1, Len(klass) + 1>>],
           <<>>)

\* split(): self.clones.append(clone)
split_append(e) ==
    Append([clones EXCEPT ![e] = Append(@, Len(klass) + 1)], <<>>)

Split(e) ==
    /\ Len(klass) < MaxEditors
    /\ ConstructAndLink(e, clone(e), split_cursor(e))
    /\ clones' = split_append(e)
    /\ last' = last

\* a caller constructs an editor of class k and calls e.link(it)
LinkFresh(e, k) ==
    /\ Len(klass) < MaxEditors
    /\ ConstructAndLink(e, k, <<0, 0>>)
    /\ clones' = Append(clones, <<>>)
    /\ last' = last

NextConfig ==
    \E e \in Editors :
        \/ Split(e)
        \/ \E p \in Props : \E v \in PropValues(p) : SetProperty(e, p, v)

SpecConfig == Init /\ [][NextConfig]_vars

\* -------------------------------------------------------------------- zoom
zoom_level_synced(zs, e, v) ==
    [x \in DOMAIN zs |-> IF x = e \/ x \in Range(clones[e]) THEN v ELSE zs[x]]

\* the zoom_level setter: self._zoom_level = value
zoom_level_setter(zs, e, v) == [zs EXCEPT ![e] = v]

ZoomUnchanged == <<klass, clones, doc, props, file, assigned, pushed, nassign,
                   linked,
                   regVars, docVars, closeVars, uiVars>>

SetZoomLevel(e, z) ==
    /\ zoom_level' = zoom_level_setter(zoom_level, e, z)
    /\ last' = last
    /\ UNCHANGED ZoomUnchanged

reset_zoom(e) ==
    /\ zoom_level' = [zoom_level EXCEPT ![e] = 0]
    /\ last' = last
    /\ UNCHANGED ZoomUnchanged

\* zoom_in: self.zoom_level += increment
zoom_in_level(z, increment) == z + increment

zoom_in(e, increment) ==
    /\ zoom_level[e] + increment <= MaxZoom
    /\ zoom_level' =
           zoom_level_setter(zoom_level, e,
                             zoom_in_level(zoom_level[e], increment))
    /\ last' = last
    /\ UNCHANGED ZoomUnchanged

zoom_out_unclamped(font_size, z, decrement) == z - decrement

\* zoom_out: decrement, then keep font_size + zoom_level above 0
zoom_out_level(font_size, z, decrement) ==
    IF font_size + (z - decrement) <= 0 THEN -font_size + 1
    ELSE z - decrement

zoom_out(e, decrement) ==
    /\ zoom_level[e] > -MaxZoom
    /\ zoom_level' =
           zoom_level_setter(zoom_level, e,
               zoom_out_level(props[e]["font_size"], zoom_level[e],
                              decrement))
    /\ last' = last
    /\ UNCHANGED ZoomUnchanged

ZoomSteps == {1, 2}

NextZoom ==
    \E e \in Editors :
        \/ Split(e)
        \/ \E z \in -MaxZoom..MaxZoom : SetZoomLevel(e, z)
        \/ reset_zoom(e)
        \/ \E n \in ZoomSteps : zoom_in(e, n)
        \/ \E n \in ZoomSteps : zoom_out(e, n)
        \/ \E v \in PropValues("font_size") : SetProperty(e, "font_size", v)

SpecZoom == Init /\ [][NextZoom]_vars

\* ---------------------------------------------------------------- document
\* toPlainText() and the dirty property of editor e
Text(e) == text[doc[e]]

dirty(e) == modified[doc[e]]

\* the (line, column) positions of a text
ValidCursors(lines) ==
    UNION {{<<l - 1, c>> : c \in 0..Len(lines[l])} : l \in DOMAIN lines}

\* where the model's user clicks
ClickPositions == {<<0, 1>>, <<0, 2>>, <<1, 1>>}

DocUnchanged == <<klass, clones, doc, props, zoom_level, assigned, pushed,
                  nassign, linked, regVars, closeVars, uiVars>>

\* setPlainText(txt, mime_type, encoding): the toolkit replaces the document's
\* content, clears its modified flag and sends every cursor to the start
setPlainText_steps_signal_first ==
    <<"file.mimetype", "file._encoding", "_original_text",
      "_modified_lines.clear", "new_text_set", "QPlainTextEdit.setPlainText",
      "redoAvailable(False)", "undoAvailable(False)">>

\* the statements of setPlainText, in the order it runs them
setPlainText_steps ==
    <<"file.mimetype", "file._encoding", "_original_text",
      "_modified_lines.clear", "QPlainTextEdit.setPlainText", "new_text_set",
      "redoAvailable(False)", "undoAvailable(False)">>

setPlainText(e, txt, mime_type, encoding) ==
    /\ file' = [file EXCEPT ![e].mimetype = mime_type,
                            ![e].encoding = encoding]
    /\ original_text' = [original_text EXCEPT ![e] = txt]
    /\ text' = [text EXCEPT ![doc[e]] = txt]
    /\ modified' = [modified EXCEPT ![doc[e]] = FALSE]
    /\ cursor' = [v \in DOMAIN cursor |->
                      IF doc[v] = doc[e] THEN <<0, 0>> ELSE cursor[v]]
    /\ trace' = setPlainText_steps
    /\ last' = last
    /\ UNCHANGED <<event, actions, created, visible_blocks, tooltip,
                   case_converter>>
    /\ UNCHANGED <<klass, clones, doc, props, zoom_level, assigned, pushed,
                   nassign, linked, regVars, closeVars>>

\* the mimetype the file manager derives from a path
MimeOf(path) == IF path = "a.py" THEN "text/x-python" ELSE "text/plain"

\* what the file at a path holds
FileContent(path) ==
    IF path = "a.py" THEN << <<" ", "a">>, <<"b">> >> ELSE << <<"a", "b">> >>

\* editor.file.open(path): records the path and installs the file's content
FileOpen(e, path) ==
    /\ file' = [file EXCEPT ![e] = [path |-> path, encoding |-> "utf-8",
                                    mimetype |-> MimeOf(path)]]
    /\ text' = [text EXCEPT ![doc[e]] = FileContent(path)]
    /\ modified' = [modified EXCEPT ![doc[e]] = FALSE]
    /\ cursor' = [v \in DOMAIN cursor |->
                      IF doc[v] = doc[e] THEN <<0, 0>> ELSE cursor[v]]
    /\ last' = last
    /\ UNCHANGED DocUnchanged

\* duplicate_line(): inserts a copy of the cursor's line below it and puts the
\* cursor at the same column of the copy; the toolkit shifts the cursors of
\* the other views that sit at or after the insertion point
duplicate_line(e) ==
    LET d == doc[e]
        l == cursor[e][1]
        col == cursor[e][2]
        line == text[d][l + 1]
    IN /\ Len(text[d]) < MaxLines
       /\ text' = [text EXCEPT ![d] =
                      SubSeq(@, 1, l + 1) \o <<line>> \o
                      SubSeq(@, l + 2, Len(@))]
       /\ modified' = [modified EXCEPT ![d] = TRUE]
       /\ cursor' =
              [v \in DOMAIN cursor |->
                  IF v = e THEN <<l + 1, col>>
                  ELSE IF doc[v] = d /\
                          (cursor[v][1] > l \/
                           (cursor[v][1] = l /\ cursor[v][2] = Len(line)))
                       THEN <<cursor[v][1] + 1, cursor[v][2]>>
                       ELSE cursor[v]]
       /\ file' = file
       /\ last' = last
       /\ UNCHANGED DocUnchanged

\* mousePressEvent(): no handler accepts the event, so the toolkit's handler
\* moves the text cursor to the clicked position
mousePressEvent(e, pos) ==
    /\ pos \in ValidCursors(Text(e))
    /\ cursor' = [cursor EXCEPT ![e] = pos]
    /\ last' = last
    /\ UNCHANGED <<text, modified, file>>
    /\ UNCHANGED DocUnchanged

NextDoc ==
    \E e \in Editors :
        \/ Len(klass) < MaxViews /\ Split(e)
        \/ \E k \in Classes : Len(klass) < MaxViews /\ LinkFresh(e, k)
        \/ \E txt \in Texts : setPlainText(e, txt, "text/plain", "latin-1")
        \/ \E path \in Paths : FileOpen(e, path)
        \/ duplicate_line(e)

SpecDoc == Init /\ [][NextDoc]_vars

NextSplit ==
    \E e \in Editors :
        \/ Split(e)
        \/ setPlainText(e, FileContent("a.py"), "text/plain", "utf-8")
        \/ duplicate_line(e)
        \/ \E pos \in ClickPositions : mousePressEvent(e, pos)

SpecSplit == InitAnyClass /\ [][NextSplit]_vars

\* ------------------------------------------------------------------- close
Decos == {"d1", "d2"}

\* editor.decorations.append(d)
DecorationsAppend(e, d) ==
    /\ decorations' = [decorations EXCEPT ![e] = @ \cup {d}]
    /\ last' = last
    /\ UNCHANGED <<backend, shown, cache, calls, regVars, docVars, edVars,
                   uiVars>>

\* editor.backend.start(...)
BackendStart(e) ==
    /\ ~backend[e]
    /\ backend' = [backend EXCEPT ![e] = TRUE]
    /\ last' = last
    /\ UNCHANGED <<decorations, shown, cache, calls, regVars, docVars, edVars,
                   uiVars>>

\* Cache().set_cursor_position(path, position)
set_cursor_position(c, path, position) ==
    [f \in DOMAIN c \cup {path} |-> IF f = path THEN position ELSE c[f]]

close_steps_backend_first ==
    <<"backend.stop", "decorations.clear", "modes.clear", "panels.clear",
      "Cache.set_cursor_position", "QPlainTextEdit.close">>

\* the calls close() makes, in the order it makes them
close_steps ==
    <<"decorations.clear", "modes.clear", "panels.clear", "backend.stop",
      "Cache.set_cursor_position", "QPlainTextEdit.close">>

\* one call of close() on editor e, applied to the state st it has reached
CloseStep(e, st, step) ==
    LET st1 == [st EXCEPT !.calls = Append(@, step)]
    IN CASE step = "decorations.clear" -> [st1 EXCEPT !.decorations = {}]
         [] step = "modes.clear" ->
                [st1 EXCEPT !.managers[modes(e)] = RegClear(@),
                            !.trail._modes = TrailClear]
         [] step = "panels.clear" ->
                [st1 EXCEPT !.managers[panels(e)] = RegClear(@),
                            !.trail._panels = TrailClear]
         [] step = "backend.stop" -> [st1 EXCEPT !.backend = FALSE]
         [] step = "Cache.set_cursor_position" ->
                [st1 EXCEPT !.cache = set_cursor_position(
                                          @, file[e].path, cursor_position(e))]
         [] step = "QPlainTextEdit.close" -> [st1 EXCEPT !.shown = FALSE]

RECURSIVE CloseRun(_, _, _)
CloseRun(e, st, steps) ==
    IF steps = <<>> THEN st
    ELSE CloseRun(e, CloseStep(e, st, Head(steps)), Tail(steps))

\* close(clear): the argument is not read
close(e, clear) ==
    LET st == CloseRun(e, [decorations |-> decorations[e],
                           managers |-> managers[e], trail |-> trail[e],
                           backend |-> backend[e], cache |-> cache,
                           shown |-> shown[e], calls |-> <<>>],
                       close_steps)
    IN /\ decorations' = [decorations EXCEPT ![e] = st.decorations]
       /\ managers' = [managers EXCEPT ![e] = st.managers]
       /\ trail' = [trail EXCEPT ![e] = st.trail]
       /\ backend' = [backend EXCEPT ![e] = st.backend]
       /\ cache' = st.cache
       /\ shown' = [shown EXCEPT ![e] = st.shown]
       /\ calls' = [calls EXCEPT ![e] = st.calls]
       /\ last' = [op |-> "close", ed |-> e,
                   arg |-> IF clear THEN "True" ELSE "False", ret |-> None]
       /\ UNCHANGED <<panelPos, panelEnabled, docVars, edVars, uiVars>>

NextClose ==
    \E e \in Editors :
        \/ \E path \in Paths : FileOpen(e, path)
        \/ \E pos \in ClickPositions : mousePressEvent(e, pos)
        \/ \E m \in {"cc1", "ai1"} : ModesAppend(e, m)
        \/ PanelsAppend(e, "ln1", "LEFT")
        \/ \E d \in Decos : DecorationsAppend(e, d)
        \/ BackendStart(e)
        \/ \E clear \in BOOLEAN : close(e, clear)

SpecClose == Init /\ [][NextClose]_vars

\* --------------------------------------------------------------- key press
MaxChars == 3          \* characters a document may grow to by key presses

Keys == {"Tab", "Backtab", "Home", "Return", "Enter", "A", "F1"}

\* the values of AutoIndentMode.min_indent the runs use
MinIndents == {<<>>, <<" ", " ">>}

\* the text the key-press runs start from: one indented line
IndentedText == << <<" ", "a">> >>

Whitespace == {" ", "\t"}

\* re.match(r"\s*", s).group(): the leading whitespace of a line
RECURSIVE LeadingWhitespace(_)
LeadingWhitespace(line) ==
    IF line # <<>> /\ Head(line) \in Whitespace
    THEN <<Head(line)>> \o LeadingWhitespace(Tail(line))
    ELSE <<>>

\* the selection up to the next word with its spaces removed, when it starts
\* with a space
RECURSIVE EatSpaces(_)
EatSpaces(rest) ==
    IF rest # <<>> /\ Head(rest) = " " THEN EatSpaces(Tail(rest)) ELSE rest

\* the toolkit's insertion of txt at (line, column) cur, txt holding no
\* newline
InsertChars(lines, cur, txt) ==
    [lines EXCEPT ![cur[1] + 1] =
        SubSeq(@, 1, cur[2]) \o txt \o SubSeq(@, cur[2] + 1, Len(@))]

\* the toolkit's insertion of a newline followed by post at cur
InsertNewline(lines, cur, post) ==
    LET l == cur[1] + 1
        line == lines[l]
    IN SubSeq(lines, 1, l - 1) \o
       <<SubSeq(line, 1, cur[2]), post \o SubSeq(line, cur[2] + 1, Len(line))>>
       \o SubSeq(lines, l + 1, Len(lines))

get_indent_no_min(lines, cur, min_indent) == LeadingWhitespace(lines[cur[1] + 1])

\* AutoIndentMode._get_indent: the text after the new line
get_indent(lines, cur, min_indent) ==
    LET indent == LeadingWhitespace(lines[cur[1] + 1])
    IN IF Len(indent) < Len(min_indent) THEN min_indent ELSE indent

\* AutoIndentMode._on_key_pressed on the event state st
AutoIndent_on_key_pressed(st, key, min_indent) ==
    IF st.accepted THEN st
    ELSE IF key \in {"Return", "Enter"}
    THEN LET post == get_indent(st.lines, st.cur, min_indent)
             lines1 == InsertNewline(st.lines, st.cur, post)
             cur1 == <<st.cur[1] + 1, Len(post)>>
             line1 == lines1[cur1[1] + 1]
             rest == SubSeq(line1, cur1[2] + 1, Len(line1))
             lines2 == [lines1 EXCEPT ![cur1[1] + 1] =
                           SubSeq(line1, 1, cur1[2]) \o EatSpaces(rest)]
         IN [st EXCEPT !.lines = lines2, !.cur = cur1, !.modified = TRUE,
                       !.accepted = TRUE,
                       !.inserted = <<"\n">> \o post,
                       !.trace = Append(@, "AutoIndentMode.insertText")]
    ELSE st

\* TextHelper(self).line_indent()
line_indent(lines, cur) == Len(LeadingWhitespace(lines[cur[1] + 1]))

\* _do_home_key(event): to the first significant character, or to the start
\* of the block when already there
do_home_key(st) ==
    LET delta == st.cur[2] - line_indent(st.lines, st.cur)
    IN [st EXCEPT !.cur = IF delta # 0 THEN <<st.cur[1], st.cur[2] - delta>>
                           ELSE <<st.cur[1], 0>>,
                  !.accepted = TRUE,
                  !.trace = Append(@, "_do_home_key")]

\* QPlainTextEdit.keyPressEvent: the base widget's key handler
base_keyPressEvent(st, key) ==
    LET st1 == [st EXCEPT !.trace = Append(@, "QPlainTextEdit.keyPressEvent")]
    IN CASE key \in {"Return", "Enter"} ->
                [st1 EXCEPT !.lines = InsertNewline(st.lines, st.cur, <<>>),
                            !.cur = <<st.cur[1] + 1, 0>>,
                            !.modified = TRUE, !.accepted = TRUE]
         [] key \in {"A", "Tab"} ->
                [st1 EXCEPT !.lines = InsertChars(st.lines, st.cur,
                                <<IF key = "A" THEN "a" ELSE "\t">>),
                            !.cur = <<st.cur[1], st.cur[2] + 1>>,
                            !.modified = TRUE, !.accepted = TRUE]
         [] OTHER -> [st1 EXCEPT !.accepted = FALSE]

runs_default_always(state) == TRUE

\* `if not event.isAccepted():` after key_pressed was emitted
runs_default(state) == ~state

tab_accepts_not == FALSE

\* `event.accept()` after indent() and un_indent()
tab_accepts == TRUE

\* the body of keyPressEvent on the event state st0, the event arriving with
\* accepted flag initial_state; accepts: a key_pressed handler connected
\* before the modes accepts the event
keyPressEvent_run(e, st0, key, initial_state, accepts, min_indent) ==
    LET st1 == [st0 EXCEPT !.accepted = accepts,
                           !.trace = Append(@, "key_pressed")]
        st2 == IF RegHas(managers[e][modes(e)], "AutoIndentMode")
               THEN AutoIndent_on_key_pressed(st1, key, min_indent)
               ELSE st1
        state == st2.accepted
        st3 == IF key = "Tab"
               THEN [st2 EXCEPT !.trace = Append(@, "indent_requested"),
                                !.accepted = tab_accepts]
               ELSE IF key = "Backtab"
               THEN [st2 EXCEPT !.trace = Append(@, "unindent_requested"),
                                !.accepted = tab_accepts]
               ELSE IF key = "Home" THEN do_home_key(st2)
               ELSE st2
        st4 == IF ~st3.accepted
               THEN base_keyPressEvent(
                        [st3 EXCEPT !.accepted = initial_state], key)
               ELSE st3
        st5 == IF runs_default(state) THEN st4 ELSE st2
    IN [st5 EXCEPT !.trace = Append(@, "post_key_pressed")]

\* where the toolkit leaves the cursor of another view of the document
ClampCursor(lines, cur) ==
    LET l == IF cur[1] + 1 > Len(lines) THEN Len(lines) - 1 ELSE cur[1]
        c == IF cur[2] > Len(lines[l + 1]) THEN Len(lines[l + 1]) ELSE cur[2]
    IN <<l, c>>

RECURSIVE NChars(_)
NChars(lines) ==
    IF lines = <<>> THEN 0 ELSE Len(Head(lines)) + NChars(Tail(lines))

keyPressEvent(e, key, initial_state, accepts, min_indent) ==
    LET st == keyPressEvent_run(e, [accepted |-> FALSE, lines |-> Text(e),
                                    cur |-> cursor[e],
                                    modified |-> dirty(e),
                                    inserted |-> <<>>, trace |-> <<>>],
                                key, initial_state, accepts, min_indent)
    IN /\ Len(st.lines) <= MaxLines
       /\ NChars(st.lines) <= MaxChars
       /\ text' = [text EXCEPT ![doc[e]] = st.lines]
       /\ modified' = [modified EXCEPT ![doc[e]] = st.modified]
       /\ cursor' = [v \in DOMAIN cursor |->
                        IF v = e THEN st.cur
                        ELSE IF doc[v] = doc[e]
                             THEN ClampCursor(st.lines, cursor[v])
                             ELSE cursor[v]]
       /\ trace' = st.trace
       /\ event' = [key |-> key, accepted |-> st.accepted]
       /\ last' = last
       /\ UNCHANGED <<file, actions, created, original_text, visible_blocks,
                      tooltip, case_converter>>
       /\ UNCHANGED <<klass, clones, doc, props, zoom_level, assigned, pushed,
                      nassign, linked, regVars, closeVars>>

NextKeys ==
    \E e \in Editors :
        \/ setPlainText(e, IndentedText, "text/plain", "utf-8")
        \/ \E pos \in ClickPositions : mousePressEvent(e, pos)
        \/ ModesAppend(e, "ai1")
        \/ \E key \in Keys : \E initial_state, accepts \in BOOLEAN :
              \E min_indent \in MinIndents :
                  keyPressEvent(e, key, initial_state, accepts, min_indent)

SpecKeys == Init /\ [][NextKeys]_vars

\* ------------------------------------------------------------ context menu
MaxAdded == 4          \* entries the context menu may grow by

\* actions callers add, and actions they name as prev_action
UserActions == {Action("X"), Action("Y")}

PrevActions == {Action("Undo"), Action("Go to line"), Action("X"),
                Action("Missing")}

ValueError == "ValueError"

\* list.index(x), 1-based; 0 when x is not in the list
IndexOf(seq, x) ==
    IF \E i \in DOMAIN seq : seq[i] = x
    THEN CHOOSE i \in DOMAIN seq : seq[i] = x /\ \A j \in 1..(i - 1) : seq[j] # x
    ELSE 0

\* list.insert(index, x) with the 0-based index of the element at 1-based i:
\* x takes that place and the element moves one place back
ListInsert(seq, i, x) == SubSeq(seq, 1, i - 1) \o <<x>> \o SubSeq(seq, i, Len(seq))

\* list.remove(x): drops the first occurrence
ListRemove(seq, x) ==
    SubSeq(seq, 1, IndexOf(seq, x) - 1) \o SubSeq(seq, IndexOf(seq, x) + 1, Len(seq))

MenuUnchanged == <<trace, event, original_text, visible_blocks, tooltip,
                   regVars, docVars, edVars, closeVars>>

add_action(e, action) ==
    /\ Len(actions[e]) < Len(DefaultActions) + MaxAdded
    /\ actions' = [actions EXCEPT ![e] = Append(@, action)]
    /\ last' = [op |-> "add_action", ed |-> e, arg |-> action.name,
                ret |-> None]
    /\ UNCHANGED <<created, case_converter>>
    /\ UNCHANGED MenuUnchanged

\* insert_action(action, prev_action)
insert_action(e, action, prev_action) ==
    /\ Len(actions[e]) < Len(DefaultActions) + MaxAdded
    /\ IF IndexOf(actions[e], prev_action) = 0
       THEN /\ actions' = actions
            /\ last' = [op |-> "insert_action", ed |-> e,
                        arg |-> action.name, ret |-> ValueError]
       ELSE /\ actions' = [actions EXCEPT ![e] =
                    ListInsert(@, IndexOf(@, prev_action), action)]
            /\ last' = [op |-> "insert_action", ed |-> e,
                        arg |-> action.name, ret |-> None]
    /\ UNCHANGED <<created, case_converter>>
    /\ UNCHANGED MenuUnchanged

\* add_separator(): a new separator each time
add_separator(e) ==
    /\ Len(actions[e]) < Len(DefaultActions) + MaxAdded
    /\ created < NDefaultSeparators + MaxAdded
    /\ created' = created + 1
    /\ actions' = [actions EXCEPT ![e] = Append(@, Separator(created + 1))]
    /\ last' = [op |-> "add_separator", ed |-> e, arg |-> None, ret |-> None]
    /\ UNCHANGED case_converter
    /\ UNCHANGED MenuUnchanged

remove_action(e, action) ==
    /\ IF IndexOf(actions[e], action) = 0
       THEN /\ actions' = actions
            /\ last' = [op |-> "remove_action", ed |-> e,
                        arg |-> action.name, ret |-> ValueError]
       ELSE /\ actions' = [actions EXCEPT ![e] = ListRemove(@, action)]
            /\ last' = [op |-> "remove_action", ed |-> e,
                        arg |-> action.name, ret |-> None]
    /\ UNCHANGED <<created, case_converter>>
    /\ UNCHANGED MenuUnchanged

action_to_lower == Action("Convert to lower case")

action_to_upper == Action("Convert to UPPER CASE")

create_actions_each_time(m) == TRUE

\* `if not self._actions_created:`
create_actions_needed(m) == ~m.actions_created

disable_keeps_separator(seq, m) ==
    ListRemove(ListRemove(seq, action_to_lower), action_to_upper)

\* on_state_changed(False): the three remove_action calls
disable_removes(seq, m) ==
    ListRemove(ListRemove(ListRemove(seq, action_to_lower), action_to_upper),
               m.separator)

\* the mode's enabled setter calling on_state_changed(state) when the state
\* changes
CaseConverter_set_enabled(e, state) ==
    LET m == case_converter[e]
    IN /\ m.enabled # state
       /\ IF state
          THEN /\ Len(actions[e]) + 3 <= Len(DefaultActions) + MaxAdded
               /\ created < NDefaultSeparators + MaxAdded
               /\ created' = created + 1
               /\ actions' = [actions EXCEPT ![e] =
                      @ \o <<Separator(created + 1), action_to_lower,
                             action_to_upper>>]
               /\ case_converter' = [case_converter EXCEPT ![e] =
                      [enabled |-> TRUE, actions_created |-> TRUE,
                       separator |-> Separator(created + 1),
                       ncreate |-> IF create_actions_needed(m)
                                   THEN m.ncreate + 1 ELSE m.ncreate,
                       cycles |-> IF m.cycles < 2 THEN m.cycles + 1 ELSE 2,
                       first |-> IF m.cycles = 0 THEN actions[e]
                                 ELSE m.first]]
          ELSE /\ created' = created
               /\ actions' = [actions EXCEPT ![e] = disable_removes(@, m)]
               /\ case_converter' = [case_converter EXCEPT ![e] =
                      [m EXCEPT !.enabled = FALSE]]
       /\ last' = [op |-> "enabled", ed |-> e,
                   arg |-> IF state THEN "True" ELSE "False", ret |-> None]
       /\ UNCHANGED MenuUnchanged

NextMenu ==
    \E e \in Editors :
        \/ \E a \in UserActions : add_action(e, a)
        \/ \E a \in UserActions : \E prev \in PrevActions :
              insert_action(e, a, prev)
        \/ \E a \in UserActions : remove_action(e, a)
        \/ add_separator(e)
        \/ \E state \in BOOLEAN : CaseConverter_set_enabled(e, state)

SpecMenu == Init /\ [][NextMenu]_vars

\* ---------------------------------------------------------------- focus out
saves_without_path(e) == props[e]["save_on_focus_out"] /\ dirty(e)

\* `if self.save_on_focus_out and self.dirty and self.file.path:`
saves_on_focus_out(e) ==
    props[e]["save_on_focus_out"] /\ dirty(e) /\ file[e].path # ""

\* focusOutEvent(event); file.save() writes the text and leaves the document
\* unmodified
focusOutEvent(e) ==
    /\ IF saves_on_focus_out(e)
       THEN /\ trace' = <<"file.save", "QPlainTextEdit.focusOutEvent">>
            /\ modified' = [modified EXCEPT ![doc[e]] = FALSE]
       ELSE /\ trace' = <<"QPlainTextEdit.focusOutEvent">>
            /\ modified' = modified
    /\ last' = last
    /\ UNCHANGED <<text, cursor, event, actions, created, original_text,
                   visible_blocks, tooltip, case_converter>>
    /\ UNCHANGED <<regVars, edVars, closeVars>>

NextFocus ==
    \E e \in Editors :
        \/ Len(klass) < MaxViews /\ Split(e)
        \/ \E path \in Paths : FileOpen(e, path)
        \/ duplicate_line(e)
        \/ \E v \in BOOLEAN : SetProperty(e, "save_on_focus_out", v)
        \/ focusOutEvent(e)

SpecFocus == Init /\ [][NextFocus]_vars

\* -------------------------------------------------------------------- paint
MaxHeight == 4         \* largest widget height, in pixels

\* the geometries a paint of editor e may run under: the number of the first
\* visible block, the top of that block, the height of a line, the hidden
\* (folded) blocks, and the widget's height
Geometries(e) ==
    [first : 0..(Len(Text(e)) - 1), top : {-1, 0}, line_height : {1, 2},
     hidden : SUBSET (1..(Len(Text(e)) - 1)), height : 0..MaxHeight,
     nblocks : {Len(Text(e))}]

\* int(self.blockBoundingRect(block).height()): a hidden block has no height
BlockHeight(geo, b) == IF b \in geo.hidden THEN 0 ELSE geo.line_height

\* the block object the toolkit hands out for block number b
Block(geo, b) == [number |-> b, visible |-> b \notin geo.hidden]

partly_inside(top, bottom, height) == top >= 0 /\ top <= height

\* `visible = (top >= ebottom_top and bottom <= ebottom_bottom)`
fully_inside(top, bottom, height) == top >= 0 /\ bottom <= height

\* the while loop of _update_visible_blocks, at block number b
RECURSIVE ScanBlocks(_, _, _, _)
ScanBlocks(geo, b, top, acc) ==
    IF b >= geo.nblocks THEN acc
    ELSE LET bottom == top + BlockHeight(geo, b)
         IN IF ~fully_inside(top, bottom, geo.height) THEN acc
            ELSE ScanBlocks(geo, b + 1, bottom,
                     IF Block(geo, b).visible
                     THEN Append(acc, [top |-> top, line_number |-> b,
                                       block |-> Block(geo, b)])
                     ELSE acc)

\* _update_visible_blocks(): empties the list, then scans from the first
\* visible block
update_visible_blocks(geo) == ScanBlocks(geo, geo.first, geo.top, <<>>)

\* paintEvent(e)
paintEvent(e, geo) ==
    /\ geo.first \notin geo.hidden
    /\ visible_blocks' = [visible_blocks EXCEPT ![e] =
                              update_visible_blocks(geo)]
    /\ trace' = <<"_update_visible_blocks", "QPlainTextEdit.paintEvent",
                  "painted">>
    /\ event' = [key |-> "Paint", accepted |-> FALSE, ed |-> e, geo |-> geo]
    /\ last' = last
    /\ UNCHANGED <<actions, created, original_text, tooltip, case_converter>>
    /\ UNCHANGED <<regVars, docVars, edVars, closeVars>>

NextPaint ==
    \E e \in Editors :
        \/ \E txt \in Texts : setPlainText(e, txt, "text/plain", "utf-8")
        \/ duplicate_line(e)
        \/ \E geo \in Geometries(e) : paintEvent(e, geo)

SpecPaint == Init /\ [][NextPaint]_vars

\* ------------------------------------------------------------------ tooltip
TooltipLimit == 1024

\* the decorations of the tooltip runs: d1 on block 0 with a short tooltip,
\* d2 on block 1 with a tooltip longer than the limit, d3 on block 0 with no
\* tooltip
TooltipDecos == Decos \cup {"d3"}

DecoBlock(d) == IF d = "d2" THEN 1 ELSE 0

\* len(sel.tooltip); 0 for a decoration without tooltip
DecoTooltip(d) ==
    CASE d = "d1" -> 5
      [] d = "d2" -> TooltipLimit + 1
      [] OTHER -> 0

\* len(tooltip[0: 1024])
Truncate(n) == IF n > TooltipLimit THEN TooltipLimit ELSE n

TooltipUnchanged == <<event, actions, created, original_text, visible_blocks,
                      case_converter, regVars, docVars, edVars, backend,
                      shown, cache, calls>>

\* editor.decorations.remove(d)
DecorationsRemove(e, d) ==
    /\ d \in decorations[e]
    /\ decorations' = [decorations EXCEPT ![e] = @ \ {d}]
    /\ last' = last
    /\ UNCHANGED <<trace, tooltip>>
    /\ UNCHANGED TooltipUnchanged

\* the decorations under the mouse that carry a tooltip:
\* `sel.contains_cursor(cursor) and sel.tooltip`
Hovered(e, b) ==
    {d \in decorations[e] : DecoBlock(d) = b /\ DecoTooltip(d) > 0}

\* mouseMoveEvent with the mouse over block b
mouseMoveEvent(e, b) ==
    LET t == tooltip[e]
    IN /\ b < Len(Text(e))
       /\ IF Hovered(e, b) # {}
          THEN \E sel \in Hovered(e, b) :
                  IF t.block # b \/ ~t.visible
                  THEN /\ tooltip' = [tooltip EXCEPT ![e] =
                              [t EXCEPT !.job = sel,
                                        !.text = Truncate(DecoTooltip(sel)),
                                        !.block = b]]
                       /\ trace' = <<"request_job", "mouse_moved",
                                     "QPlainTextEdit.mouseMoveEvent">>
                  ELSE /\ tooltip' = tooltip
                       /\ trace' = <<"mouse_moved",
                                     "QPlainTextEdit.mouseMoveEvent">>
          ELSE IF t.block # -1
          THEN /\ tooltip' = [tooltip EXCEPT ![e] = NoTooltip]
               /\ trace' = <<"hideText", "cancel_requests", "mouse_moved",
                             "QPlainTextEdit.mouseMoveEvent">>
          ELSE /\ tooltip' = tooltip
               /\ trace' = <<"mouse_moved", "QPlainTextEdit.mouseMoveEvent">>
       /\ last' = last
       /\ UNCHANGED decorations
       /\ UNCHANGED TooltipUnchanged

sender_never_gone(e, sender) == FALSE

\* `_sender_deco is not None and _sender_deco not in self.decorations`
sender_gone(e, sender) == sender # NoJob /\ sender \notin decorations[e]

\* show_tooltip(pos, tooltip, _sender_deco) with a tooltip of length n
show_tooltip_run(e, t, n, sender) ==
    IF sender_gone(e, sender) THEN t
    ELSE [t EXCEPT !.visible = TRUE, !.shown = Truncate(n)]

\* a caller shows a tooltip of length n
show_tooltip(e, n) ==
    /\ tooltip' = [tooltip EXCEPT ![e] = show_tooltip_run(e, @, n, NoJob)]
    /\ trace' = <<"showText">>
    /\ last' = last
    /\ UNCHANGED decorations
    /\ UNCHANGED TooltipUnchanged

\* the delay of the tooltip runner elapses: the requested job runs
\* show_tooltip with the requesting decoration as sender
TooltipJobFires(e) ==
    LET t == tooltip[e]
    IN /\ t.job # NoJob
       /\ tooltip' = [tooltip EXCEPT ![e] =
              show_tooltip_run(e, [t EXCEPT !.job = NoJob, !.text = 0],
                               t.text, t.job)]
       /\ trace' = IF sender_gone(e, t.job) THEN <<"show_tooltip">>
                   ELSE <<"show_tooltip", "showText">>
       /\ last' = last
       /\ UNCHANGED decorations
       /\ UNCHANGED TooltipUnchanged

\* the toolkit takes the tooltip off the screen
TooltipExpires(e) ==
    /\ tooltip[e].visible
    /\ tooltip' = [tooltip EXCEPT ![e].visible = FALSE, ![e].shown = 0]
    /\ last' = last
    /\ UNCHANGED <<trace, decorations>>
    /\ UNCHANGED TooltipUnchanged

NextTooltip ==
    \E e \in Editors :
        \/ FileOpen(e, "a.py")
        \/ \E d \in TooltipDecos : DecorationsAppend(e, d)
        \/ \E d \in TooltipDecos : DecorationsRemove(e, d)
        \/ \E b \in 0..(MaxLines - 1) : mouseMoveEvent(e, b)
        \/ show_tooltip(e, TooltipLimit + 1)
        \/ TooltipJobFires(e)
        \/ TooltipExpires(e)

SpecTooltip == Init /\ [][NextTooltip]_vars

\* ------------------------------------------------------- registry claims
\* C1: for the modes registry and for the panels registry, remove(T) of an
\* installed type returns the instance that was installed and unregisters
\* it; remove(T) of a type that is not registered raises KeyError and leaves
\* the registry as it was.
C1_RemoveReturnsInstalled ==
    [][ /\ last'.op = "modes.remove" =>
              LET reg == managers[last'.ed]._modes
                  T == last'.arg
              IN IF RegHas(reg, T)
                 THEN /\ last'.ret = reg[T]
                      /\ ~RegHas(managers'[last'.ed]._modes, T)
                 ELSE /\ last'.ret = KeyError
                      /\ managers'[last'.ed] = managers[last'.ed]
        /\ last'.op = "panels.remove" =>
              LET reg == managers[last'.ed]._panels
                  T == last'.arg
              IN IF RegHas(reg, T)
                 THEN /\ last'.ret = reg[T]
                      /\ ~RegHas(managers'[last'.ed]._panels, T)
                 ELSE /\ last'.ret = KeyError
                      /\ managers'[last'.ed] = managers[last'.ed]
      ]_vars

\* a panel has just been removed and returned, so that a second remove of
\* its type meets an unregistered type
C1_Witness ==
    /\ last.op = "panels.remove"
    /\ last.ret \in PanelInsts
    /\ ~RegHas(managers[last.ed]._panels, last.arg)
    /\ RegLen(managers[last.ed]._panels) = 1

\* C2: after modes.clear() followed by modes.append(m), len(editor.modes) is
\* 1 and modes.get(type(m)) is m itself.
C2_ClearAppendGet ==
    \A e \in Editors :
        trail[e]._modes.st = "first" =>
            /\ ModesLen(e) = 1
            /\ ModesGet(e, TypeOf(trail[e]._modes.inst)) = trail[e]._modes.inst

\* cc2 was appended right after a clear() that emptied a registry, while
\* panels are installed beside it
C2_Witness ==
    /\ trail[1]._modes.st = "first"
    /\ trail[1]._modes.inst = "cc2"
    /\ PanelsLen(1) = 2

PanelInstalled(t) == t.st \in {"first", "appended"}

\* C3: a panel appended at a position is what panels.get(type(p)) returns
\* and reports that position; toggling its enabled flag changes neither the
\* registry nor any position, and panels.remove(type(p)) then returns p.
C3_PanelKeepsPosition ==
    [][ /\ \A e \in Editors :
              LET t == trail'[e]._panels
              IN PanelInstalled(t) =>
                    /\ RegGet(managers'[e][panels(e)], TypeOf(t.inst)) = t.inst
                    /\ panelPos'[t.inst] = t.pos
        /\ last'.op = "panel.enabled" =>
              /\ managers' = managers
              /\ panelPos' = panelPos
        /\ \A e \in Editors :
              LET t == trail[e]._panels
              IN ( /\ PanelInstalled(t)
                   /\ last'.op = "panels.remove"
                   /\ last'.ed = e
                   /\ last'.arg = TypeOf(t.inst) ) => last'.ret = t.inst
      ]_vars

\* ln2 was appended LEFT and has since been disabled by a toggle
C3_Witness ==
    /\ PanelInstalled(trail[1]._panels)
    /\ trail[1]._panels.inst = "ln2"
    /\ trail[1]._panels.pos = "LEFT"
    /\ last.op = "panel.enabled"
    /\ ~panelEnabled["ln2"]

\* C4: panels.clear() and modes.clear() leave both registries with length 0,
\* and one append after the clear gives length exactly 1.
C4_ClearThenUsable ==
    \A e \in Editors :
        /\ trail[e]._modes.st = "cleared" => ModesLen(e) = 0
        /\ trail[e]._panels.st = "cleared" => PanelsLen(e) = 0
        /\ trail[e]._modes.st = "first" => ModesLen(e) = 1
        /\ trail[e]._panels.st = "first" => PanelsLen(e) = 1

\* both registries were cleared and then given one extension each
C4_Witness ==
    /\ trail[1]._modes.st = "first"
    /\ trail[1]._panels.st = "first"

\* ---------------------------------------------------------- clone claims
\* C5: every clone in e.clones that callers have not assigned to directly
\* holds e's value of each of the thirteen properties, right after split()
\* and after any assignments on e (for word_separators, as long as e's own
\* original has not written e's word_separators).
C5_ClonesSynced ==
    \A e \in Editors : \A c \in Range(clones[e]) :
        ~assigned[c] =>
            \A p \in Props :
                (p = "word_separators" => ~pushed[e]) =>
                    props[c][p] = props[e][p]

\* the original was assigned two properties after its clones were split off
C5_Witness ==
    /\ clones[1] = <<2, 3>>
    /\ ~assigned[2] /\ ~assigned[3]
    /\ linked[2].props = InitProps /\ linked[3].props = InitProps
    /\ props[1]["word_separators"] = "custom separators"
    /\ props[1]["font_name"] = "Monaco"

\* C6: an editor linked to an original shows the original's text and dirty
\* value in every later state, and link() gives it the original's file path,
\* encoding and mimetype.
C6_SharedDocument ==
    [][ /\ \A c \in DOMAIN linked' :
              linked'[c].orig # 0 =>
                  /\ text'[doc'[c]] = text'[doc'[linked'[c].orig]]
                  /\ modified'[doc'[c]] = modified'[doc'[linked'[c].orig]]
        /\ Len(klass') > Len(klass) =>
              file'[Len(klass')] = file[linked'[Len(klass')].orig]
      ]_vars

\* a.py was opened, the editor was split, and a line was duplicated through
\* one of the two views
C6_Witness ==
    /\ Len(klass) = 2
    /\ linked[2].orig = 1
    /\ linked[2].file.path = "a.py"
    /\ file[2].encoding = "utf-8"
    /\ dirty(1) /\ dirty(2)
    /\ Len(Text(2)) = 3
    /\ cursor[1] # cursor[2]

\* C7: assigning zoom_level, zoom_in, zoom_out and reset_zoom on one view
\* leave the zoom_level of every other view unchanged; split() changes no
\* view's zoom_level and starts the clone at the original's.
C7_ZoomPerView ==
    [][ /\ \A e \in Editors :
              ( \/ \E z \in -MaxZoom..MaxZoom : SetZoomLevel(e, z)
                \/ reset_zoom(e)
                \/ \E n \in ZoomSteps : zoom_in(e, n)
                \/ \E n \in ZoomSteps : zoom_out(e, n) ) =>
                  \A x \in Editors \ {e} : zoom_level'[x] = zoom_level[x]
        /\ Len(klass') > Len(klass) =>
              /\ zoom_level'[Len(klass')] =
                     zoom_level[linked'[Len(klass')].orig]
              /\ \A x \in Editors : zoom_level'[x] = zoom_level[x]
      ]_vars

\* a clone that started at its original's zoom level 1 and has since been
\* zoomed apart from it and from its sibling
C7_Witness ==
    /\ clones[1] = <<2, 3>>
    /\ linked[2].zoom = 1
    /\ zoom_level[1] = -1
    /\ zoom_level[2] = 0
    /\ zoom_level[3] = 1

\* C8: split() on e constructs one editor of e's class showing e's document,
\* appends it once to e.clones behind the earlier clones, puts its cursor
\* where e's cursor is and leaves e's cursor where it was.
C8_Split ==
    [][ Len(klass') > Len(klass) =>
            LET c == Len(klass) + 1
                e == linked'[c].orig
            IN /\ Len(klass') = c
               /\ klass'[c] = klass[e]
               /\ doc'[c] = doc[e]
               /\ clones'[e] = Append(clones[e], c)
               /\ \A x \in Editors \ {e} : clones'[x] = clones[x]
               /\ cursor'[c] = cursor[e]
               /\ cursor'[e] = cursor[e]
      ]_vars

\* a second clone split off while the original's cursor was at line 1,
\* column 1
C8_Witness ==
    /\ klass = <<"SubEdit", "SubEdit", "SubEdit">>
    /\ clones[1] = <<2, 3>>
    /\ cursor[1] = <<1, 1>>
    /\ cursor[3] = <<1, 1>>
    /\ cursor[2] = <<0, 2>>

\* ---------------------------------------------------------- close claims
\* C9: close() leaves the editor's decorations, modes and panels empty and
\* its backend stopped, caches under file.path the cursor position the
\* editor had, closes the widget, and makes its calls in the order
\* decorations, modes, panels, backend, cursor cache, widget close.
C9_CloseTeardown ==
    [][ \A e \in Editors :
            (\E clear \in BOOLEAN : close(e, clear)) =>
                /\ decorations'[e] = {}
                /\ RegLen(managers'[e]._modes) = 0
                /\ RegLen(managers'[e]._panels) = 0
                /\ ~backend'[e]
                /\ file[e].path \in DOMAIN cache'
                /\ cache'[file[e].path] = cursor[e]
                /\ ~shown'[e]
                /\ calls'[e] = <<"decorations.clear", "modes.clear",
                                 "panels.clear", "backend.stop",
                                 "Cache.set_cursor_position",
                                 "QPlainTextEdit.close">>
      ]_vars

\* an editor with a file open, the cursor moved and extensions, decorations
\* and a running backend beside it has been closed
C9_Witness ==
    /\ last.op = "close"
    /\ ~shown[1]
    /\ file[1].path = "a.py"
    /\ cursor[1] = <<1, 1>>
    /\ "a.py" \in DOMAIN cache
    /\ cache["a.py"] = <<1, 1>>
    /\ calls[1] = close_steps
    /\ trail[1]._modes.st = "cleared"
    /\ trail[1]._panels.st = "cleared"

\* C10: close(True) leaves the editor's text empty and close(False) leaves
\* the text as it was.
C10_ClearEmptiesText ==
    [][ \A e \in Editors :
            /\ close(e, TRUE) => text'[doc'[e]] = EmptyText
            /\ close(e, FALSE) => text'[doc'[e]] = text[doc[e]]
      ]_vars

\* what close() does to the text, whatever its argument: nothing
C10_CloseKeepsText ==
    [][ \A e \in Editors :
            (\E clear \in BOOLEAN : close(e, clear)) => text' = text
      ]_vars

\* ------------------------------------------------------ key press claims
Count(t, x) == Cardinality({i \in DOMAIN t : t[i] = x})

DefaultHandling ==
    {"indent_requested", "unindent_requested", "_do_home_key",
     "QPlainTextEdit.keyPressEvent"}

\* C11: every key press emits key_pressed exactly once, first, and
\* post_key_pressed exactly once, last, and runs indent, un-indent, smart
\* home or the base widget's key handler only if no key_pressed handler
\* accepted the event.
C11_KeySignals ==
    [][ \A e \in Editors : \A key \in {event'.key} \cap Keys :
        \A initial_state, accepts \in BOOLEAN : \A min_indent \in MinIndents :
            keyPressEvent(e, key, initial_state, accepts, min_indent) =>
                /\ Len(trace') >= 2
                /\ Head(trace') = "key_pressed"
                /\ Count(trace', "key_pressed") = 1
                /\ trace'[Len(trace')] = "post_key_pressed"
                /\ Count(trace', "post_key_pressed") = 1
                /\ (\E i \in DOMAIN trace' : trace'[i] \in DefaultHandling) =>
                      /\ ~accepts
                      /\ Count(trace', "AutoIndentMode.insertText") = 0
      ]_vars

\* Home was pressed on the line " a" with nothing accepting the event: smart
\* home ran between the two signals and sent the cursor to column 1
C11_Witness ==
    /\ trace = <<"key_pressed", "_do_home_key", "post_key_pressed">>
    /\ event = [key |-> "Home", accepted |-> TRUE]
    /\ Text(1)[1] = <<" ", "a">>
    /\ cursor[1] = <<0, 1>>

\* C12: TAB (BACK-TAB) that no key_pressed handler accepted emits
\* indent_requested (unindent_requested) exactly once, ends accepted, does
\* not reach the base widget's key handler and leaves the text as it was;
\* when a handler accepted the event neither signal is emitted.
C12_TabIndents ==
    [][ \A e \in Editors : \A key \in {event'.key} \cap {"Tab", "Backtab"} :
        \A initial_state, accepts \in BOOLEAN : \A min_indent \in MinIndents :
            keyPressEvent(e, key, initial_state, accepts, min_indent) =>
                LET sig == IF key = "Tab" THEN "indent_requested"
                           ELSE "unindent_requested"
                IN /\ ~accepts =>
                        /\ Count(trace', sig) = 1
                        /\ event'.accepted
                        /\ Count(trace', "QPlainTextEdit.keyPressEvent") = 0
                        /\ text' = text
                   /\ accepts =>
                        /\ Count(trace', "indent_requested") = 0
                        /\ Count(trace', "unindent_requested") = 0
      ]_vars

\* TAB arrived not accepted on a text that holds no tab character
C12_Witness ==
    /\ trace = <<"key_pressed", "indent_requested", "post_key_pressed">>
    /\ event = [key |-> "Tab", accepted |-> TRUE]
    /\ Text(1) = IndentedText
    /\ cursor[1] = <<0, 2>>

\* C17: with AutoIndentMode installed, Return or Enter that no earlier
\* handler accepted inserts one newline followed by the current line's
\* leading whitespace (min_indent when that is shorter than min_indent),
\* accepts the event and keeps the base widget's key handler away; on an
\* accepted event or any other key the mode inserts nothing and leaves
\* the accepted flag as it found it.
C17_AutoIndent ==
    [][ \A e \in Editors : \A key \in {event'.key} \cap Keys :
        \A initial_state, accepts \in BOOLEAN : \A min_indent \in MinIndents :
            ( /\ RegHas(managers[e]._modes, "AutoIndentMode")
              /\ keyPressEvent(e, key, initial_state, accepts, min_indent) ) =>
                LET l == cursor[e][1] + 1
                    c == cursor[e][2]
                    line == Text(e)[l]
                    lw == LeadingWhitespace(line)
                    indent == IF Len(lw) < Len(min_indent) THEN min_indent
                              ELSE lw
                    st == [accepted |-> accepts, lines |-> Text(e),
                           cur |-> cursor[e], modified |-> dirty(e),
                           inserted |-> <<>>, trace |-> <<>>]
                    after == AutoIndent_on_key_pressed(st, key, min_indent)
                IN IF ~accepts /\ key \in {"Return", "Enter"}
                   THEN /\ after.inserted = <<"\n">> \o indent
                        /\ Len(text'[doc[e]]) = Len(Text(e)) + 1
                        /\ text'[doc[e]][l] = SubSeq(line, 1, c)
                        /\ SubSeq(text'[doc[e]][l + 1], 1, Len(indent)) = indent
                        /\ cursor'[e] = <<l, Len(indent)>>
                        /\ event'.accepted
                        /\ Count(trace', "AutoIndentMode.insertText") = 1
                        /\ Count(trace', "QPlainTextEdit.keyPressEvent") = 0
                   ELSE /\ after = st
                        /\ Count(trace', "AutoIndentMode.insertText") = 0
      ]_vars

\* Return at the end of the line " a" with the mode installed: the new line
\* starts with the one space the line started with
C17_Witness ==
    /\ RegHas(managers[1]._modes, "AutoIndentMode")
    /\ trace = <<"key_pressed", "AutoIndentMode.insertText",
                 "post_key_pressed">>
    /\ event = [key |-> "Return", accepted |-> TRUE]
    /\ Text(1) = << <<" ", "a">>, <<" ">> >>
    /\ cursor[1] = <<1, 1>>

\* --------------------------------------------------- context menu claims
\* C13: insert_action(action, prev_action) puts action right after
\* prev_action (index(action) = index(prev_action) + 1) and keeps the order
\* of the other entries; when prev_action is not in the list the call fails
\* and the list is unchanged.
C13_InsertsAfter ==
    [][ \A e \in Editors : \A a \in UserActions : \A prev \in PrevActions :
            insert_action(e, a, prev) =>
                LET Other(x) == x # a
                IN IF IndexOf(actions[e], prev) # 0
                   THEN /\ IndexOf(actions'[e], a) =
                               IndexOf(actions'[e], prev) + 1
                        /\ SelectSeq(actions'[e], Other) =
                               SelectSeq(actions[e], Other)
                   ELSE /\ actions' = actions
                        /\ last'.ret = ValueError
      ]_vars

\* what insert_action does: action takes prev_action's place, right before it
C13_InsertsBefore ==
    [][ \A e \in Editors : \A a \in UserActions : \A prev \in PrevActions :
            (insert_action(e, a, prev) /\ IndexOf(actions[e], prev) # 0) =>
                LET i == IndexOf(actions[e], prev)
                IN /\ actions'[e][i] = a
                   /\ actions'[e][i + 1] = prev
                   /\ Len(actions'[e]) = Len(actions[e]) + 1
      ]_vars

\* C18: enabling CaseConverterMode appends a new separator, 'Convert to
\* lower case' and 'Convert to UPPER CASE', in that order, to the end of the
\* actions; disabling it removes exactly those three; the two actions are
\* created once; and whenever the mode is disabled again the actions are,
\* apart from what callers added themselves, what they were before the
\* mode was first enabled.
C18_CaseConverterMenu ==
    [][ \A e \in Editors :
            LET m == case_converter[e]
                m2 == case_converter'[e]
                n == Len(actions[e])
                Own(x) == x \notin UserActions /\
                          ~(x.sep /\ x.id > NDefaultSeparators)
                Rest(x) == x \notin {m.separator, action_to_lower,
                                     action_to_upper}
            IN /\ CaseConverter_set_enabled(e, TRUE) =>
                    /\ Len(actions'[e]) = n + 3
                    /\ SubSeq(actions'[e], 1, n) = actions[e]
                    /\ actions'[e][n + 1].sep
                    /\ IndexOf(actions[e], actions'[e][n + 1]) = 0
                    /\ actions'[e][n + 2].name = "Convert to lower case"
                    /\ actions'[e][n + 3].name = "Convert to UPPER CASE"
                    /\ m.cycles > 0 =>
                          /\ actions'[e][n + 2] = action_to_lower
                          /\ actions'[e][n + 3] = action_to_upper
                          /\ m2.ncreate = m.ncreate
                    /\ m2.ncreate = 1
               /\ CaseConverter_set_enabled(e, FALSE) =>
                    /\ Len(actions'[e]) = n - 3
                    /\ actions'[e] = SelectSeq(actions[e], Rest)
                    /\ m2.ncreate = 1
               /\ (~m2.enabled /\ m2.cycles > 0) =>
                    SelectSeq(actions'[e], Own) = SelectSeq(m2.first, Own)
      ]_vars

\* the mode has been enabled and disabled twice with nothing else touching
\* the menu, and the menu is the default one again
C18_Witness ==
    /\ case_converter[1].cycles = 2
    /\ ~case_converter[1].enabled
    /\ case_converter[1].ncreate = 1
    /\ case_converter[1].separator = Separator(NDefaultSeparators + 2)
    /\ case_converter[1].first = DefaultActions
    /\ actions[1] = DefaultActions
    /\ last.op = "enabled"

\* ------------------------------------------------------------ zoom claims
\* C14: after zoom_out(decrement) font_size + zoom_level is at least 1, and
\* exactly 1 when the decremented level would have made it 0 or less; and
\* when zoom_out does not clamp, zoom_in(n) followed by zoom_out(n) gives
\* back the zoom_level it started from.
C14_ZoomOutClamps ==
    [][ \A e \in Editors : \A n \in ZoomSteps :
            LET fs == props[e]["font_size"]
                z == zoom_level[e]
                z1 == zoom_in_level(z, n)
            IN /\ zoom_out(e, n) =>
                    /\ fs >= 1
                    /\ fs + zoom_level'[e] >= 1
                    /\ fs + z - n <= 0 => fs + zoom_level'[e] = 1
                    /\ fs + z - n > 0 => zoom_level'[e] = z - n
               /\ fs + z1 - n > 0 => zoom_out_level(fs, z1, n) = z
      ]_vars

\* font_size 2 at zoom level 0 was zoomed out by 2: the level stopped at -1,
\* an effective font size of 1
C14_Witness ==
    /\ props[1]["font_size"] = 2
    /\ zoom_level[1] = -1
    /\ Len(klass) = 1
    /\ nassign = 1

\* ------------------------------------------------------- focus out claims
\* C15: focusOutEvent calls file.save() exactly when save_on_focus_out is
\* True, the document is dirty and file.path is not empty, once, and not at
\* all when one of the three fails; save_on_focus_out is False until a
\* caller assigns it.
C15_SaveOnFocusOut ==
    [][ /\ \A e \in Editors :
              focusOutEvent(e) =>
                  IF props[e]["save_on_focus_out"] = TRUE /\ modified[doc[e]]
                     /\ file[e].path # ""
                  THEN Count(trace', "file.save") = 1
                  ELSE Count(trace', "file.save") = 0
        /\ nassign = 0 => \A e \in Editors : props[e]["save_on_focus_out"] = FALSE
      ]_vars

\* a.py was open with a duplicated line and save_on_focus_out set when the
\* editor lost the focus: the file was saved
C15_Witness ==
    /\ trace = <<"file.save", "QPlainTextEdit.focusOutEvent">>
    /\ props[1]["save_on_focus_out"] = TRUE
    /\ file[1].path = "a.py"
    /\ Len(Text(1)) = 3
    /\ ~dirty(1)

\* ---------------------------------------------------- setPlainText claims
\* C16: setPlainText(txt, mime_type, encoding) sets the file's mimetype and
\* encoding and records txt as the original text before it installs the
\* text, then emits new_text_set once, redoAvailable(False) and
\* undoAvailable(False), in that order.
C16_SetPlainTextOrder ==
    [][ \A e \in Editors : \A txt \in Texts \cup {IndentedText} :
        \A mime_type \in {"text/plain", "text/x-python"} :
        \A encoding \in {"utf-8", "latin-1"} :
            setPlainText(e, txt, mime_type, encoding) =>
                LET At(x) == IndexOf(trace', x)
                    install == At("QPlainTextEdit.setPlainText")
                IN /\ file'[e].mimetype = mime_type
                   /\ file'[e].encoding = encoding
                   /\ original_text'[e] = txt
                   /\ text'[doc[e]] = txt
                   /\ \A x \in {"file.mimetype", "file._encoding",
                                "_original_text"} :
                          At(x) > 0 /\ At(x) < install
                   /\ Count(trace', "new_text_set") = 1
                   /\ At("new_text_set") > install
                   /\ At("redoAvailable(False)") = At("new_text_set") + 1
                   /\ At("undoAvailable(False)") = At("new_text_set") + 2
                   /\ At("undoAvailable(False)") = Len(trace')
      ]_vars

\* a two-line text was set with latin-1 over a.py, whose path and line count
\* show that the file had been opened and changed before
C16_Witness ==
    /\ trace = setPlainText_steps
    /\ file[1] = [path |-> "a.py", encoding |-> "latin-1",
                  mimetype |-> "text/plain"]
    /\ original_text[1] = << <<" ", "a">>, <<"b">> >>
    /\ Text(1) = original_text[1]
    /\ ~dirty(1)

\* ------------------------------------------------------------ paint claims
\* the top of block b when the first visible block starts at geo.top
RECURSIVE TopOf(_, _)
TopOf(geo, b) ==
    IF b <= geo.first THEN geo.top
    ELSE TopOf(geo, b - 1) + BlockHeight(geo, b - 1)

\* block b lies fully inside the widget's height
Inside(geo, b) ==
    TopOf(geo, b) >= 0 /\ TopOf(geo, b) + BlockHeight(geo, b) <= geo.height

\* C19: every paint rebuilds visible_blocks before painted is emitted; each
\* entry carries its block's own number, a block that is not hidden, and a
\* top with 0 <= top and top + block height <= widget height; line numbers
\* increase strictly from the first visible block; and the list holds the
\* visible blocks up to, and none after, the first block that is not fully
\* inside the widget height.
C19_VisibleBlocks ==
    [][ \A e \in Editors :
            ( /\ event'.key = "Paint"
              /\ event'.ed = e
              /\ paintEvent(e, event'.geo) ) =>
                LET geo == event'.geo
                    vb == visible_blocks'[e]
                    Listed == {vb[i].line_number : i \in DOMAIN vb}
                    Expected ==
                        {b \in geo.first..(geo.nblocks - 1) :
                            /\ b \notin geo.hidden
                            /\ \A x \in geo.first..b : Inside(geo, x)}
                IN /\ IndexOf(trace', "_update_visible_blocks") > 0
                   /\ IndexOf(trace', "_update_visible_blocks") <
                          IndexOf(trace', "painted")
                   /\ \A i \in DOMAIN vb :
                          /\ vb[i].line_number = vb[i].block.number
                          /\ vb[i].block.visible
                          /\ vb[i].top = TopOf(geo, vb[i].line_number)
                          /\ 0 <= vb[i].top
                          /\ vb[i].top + BlockHeight(geo, vb[i].line_number)
                                 <= geo.height
                   /\ \A i, j \in DOMAIN vb :
                          i < j => vb[i].line_number < vb[j].line_number
                   /\ vb # <<>> => vb[1].line_number = geo.first
                   /\ Listed = Expected
      ]_vars

\* a three-line document painted from block 0 with block 1 folded, lines 2
\* pixels high and a widget height of 4: blocks 0 and 2 are listed, and
\* nothing of the list of the paint before it is left
C19_Witness ==
    /\ event.key = "Paint"
    /\ event.geo = [first |-> 0, top |-> 0, line_height |-> 2,
                    hidden |-> {1}, height |-> 4, nblocks |-> 3]
    /\ Len(Text(1)) = 3
    /\ Len(visible_blocks[1]) = 2
    /\ visible_blocks[1][1].line_number = 0
    /\ visible_blocks[1][2] =
           [top |-> 2, line_number |-> 2,
            block |-> [number |-> 2, visible |-> TRUE]]
    /\ trace[Len(trace)] = "painted"

\* ---------------------------------------------------------- tooltip claims
\* C20: a mouse move requests a tooltip job only over a decoration that
\* has a tooltip, and then only when the hovered block is not the recorded
\* one or no tooltip is visible; a move that hits no such decoration while a
\* block is recorded hides the tooltip, resets the recorded block to -1 and
\* cancels the pending job; a job that fires after its decoration was
\* removed shows nothing; and no text handed on or shown is longer than
\* 1024 characters.
C20_Tooltip ==
    [][ \A e \in Editors :
            LET t == tooltip[e]
                t2 == tooltip'[e]
            IN /\ \A b \in 0..(MaxLines - 1) :
                    mouseMoveEvent(e, b) =>
                        LET hit == \E d \in decorations[e] :
                                       DecoBlock(d) = b /\ DecoTooltip(d) > 0
                        IN /\ Count(trace', "request_job") = 1 =>
                                 /\ hit
                                 /\ t.block # b \/ ~t.visible
                                 /\ t2.job \in decorations[e]
                                 /\ DecoTooltip(t2.job) > 0
                           /\ (~hit /\ t.block # -1) =>
                                 /\ ~t2.visible
                                 /\ t2.block = -1
                                 /\ t2.job = NoJob
                           /\ (~hit /\ t.block = -1) => t2 = t
                           /\ Count(trace', "request_job") <= 1
               /\ TooltipJobFires(e) =>
                    /\ t.job \notin decorations[e] =>
                          /\ t2.visible = t.visible
                          /\ t2.shown = t.shown
                          /\ Count(trace', "showText") = 0
                    /\ t2.job = NoJob
               /\ t2.text <= 1024
               /\ t2.shown <= 1024
      ]_vars

\* the mouse was over d2 on block 1, d2 was removed before the delay
\* elapsed, and the job that fired showed nothing
C20_Witness ==
    /\ trace = <<"show_tooltip">>
    /\ tooltip[1] = [block |-> 1, visible |-> FALSE, job |-> NoJob,
                     text |-> 0, shown |-> 0]
    /\ "d2" \notin decorations[1]
    /\ "d1" \in decorations[1]

====
